---- MODULE Spec2Model ----
\* Crowding simulation (src/agent_simulation.py) and recommendation rules
\* (src/recommendation_engine.py) of my-commute-chatbot.
EXTENDS Integers, Sequences, FiniteSets, TLC

\* ---------- binary64 arithmetic (normal range, round-to-nearest-even) ----------
\* A magnitude is a sequence of limbs, least significant first, top limb nonzero.
MantBits == 53
LimbBits == 14
Base == 2^LimbBits

Zeros(k) == [i \in 1..k |-> 0]

Limb(a, i) == IF i >= 1 /\ i <= Len(a) THEN a[i] ELSE 0

RECURSIVE TopLimb(_, _)
TopLimb(a, i) == IF i = 0 THEN 0 ELSE IF a[i] # 0 THEN i ELSE TopLimb(a, i - 1)

Canon(a) == SubSeq(a, 1, TopLimb(a, Len(a)))

RECURSIVE NatLimbs(_)
NatLimbs(n) == IF n = 0 THEN <<>> ELSE <<n % Base>> \o NatLimbs(n \div Base)

BitLen(a) ==
    IF a = <<>> THEN 0
    ELSE (Len(a) - 1) * LimbBits
         + CHOOSE k \in 1..LimbBits : 2^(k - 1) <= a[Len(a)] /\ a[Len(a)] < 2^k

BBit(a, i) == (Limb(a, (i \div LimbBits) + 1) \div 2^(i % LimbBits)) % 2

BAdd(a, b) ==
    LET n == (IF Len(a) > Len(b) THEN Len(a) ELSE Len(b)) + 1
        carry[i \in 0..n] == IF i = 0 THEN 0
                             ELSE (Limb(a, i) + Limb(b, i) + carry[i - 1]) \div Base
    IN  Canon([i \in 1..n |-> (Limb(a, i) + Limb(b, i) + carry[i - 1]) % Base])

\* a - b for a >= b
BSub(a, b) ==
    LET n == Len(a)
        borrow[i \in 0..n] == IF i = 0 THEN 0
                              ELSE IF Limb(a, i) - Limb(b, i) - borrow[i - 1] < 0 THEN 1 ELSE 0
    IN  Canon([i \in 1..n |-> (Limb(a, i) - Limb(b, i) - borrow[i - 1] + Base) % Base])

BLess(a, b) ==
    \/ Len(a) < Len(b)
    \/ /\ Len(a) = Len(b)
       /\ \E i \in 1..Len(a) : /\ a[i] < b[i]
                               /\ \A j \in (i + 1)..Len(a) : a[j] = b[j]

\* a * k for 0 < k < 2^16
BMul(a, k) ==
    LET n == Len(a) + 2
        carry[i \in 0..n] == IF i = 0 THEN 0
                             ELSE (Limb(a, i) * k + carry[i - 1]) \div Base
    IN  Canon([i \in 1..n |-> (Limb(a, i) * k + carry[i - 1]) % Base])

BShl(a, s) == IF a = <<>> THEN <<>>
              ELSE Zeros(s \div LimbBits) \o BMul(a, 2^(s % LimbBits))

\* floor(a / 2^d)
BShr(a, d) ==
    LET q == d \div LimbBits
        r == d % LimbBits
        n == Len(a) - q
    IN  IF n <= 0 THEN <<>>
        ELSE Canon([i \in 1..n |-> (Limb(a, q + i) \div 2^r)
                                   + (Limb(a, q + i + 1) % 2^r) * 2^(LimbBits - r)])

\* a mod 2^d # 0
BLowBits(a, d) ==
    \/ \E i \in 1..(d \div LimbBits) : Limb(a, i) # 0
    \/ Limb(a, (d \div LimbBits) + 1) % 2^(d % LimbBits) # 0

FZero == [neg |-> FALSE, m |-> <<>>, e |-> 0]

\* nearest binary64 to (+/-) a * 2^e, where sticky tells that the exact value
\* lies strictly above a * 2^e in magnitude (and below (a + 1) * 2^e)
Round(neg, a, e, sticky) ==
    LET L == BitLen(a) IN
    IF L = 0 THEN FZero
    ELSE IF L <= MantBits
         THEN [neg |-> neg, m |-> BShl(a, MantBits - L), e |-> e - (MantBits - L)]
    ELSE LET d     == L - MantBits
             keep  == BShr(a, d)
             st    == sticky \/ BLowBits(a, d - 1)
             up    == BBit(a, d - 1) = 1 /\ (st \/ BBit(keep, 0) = 1)
             k2    == IF up THEN BAdd(keep, <<1>>) ELSE keep
         IN  IF BitLen(k2) > MantBits
             THEN [neg |-> neg, m |-> BShr(k2, 1), e |-> e + d + 1]
             ELSE [neg |-> neg, m |-> k2, e |-> e + d]

FromInt(n) == IF n < 0 THEN Round(TRUE, NatLimbs(-n), 0, FALSE)
              ELSE Round(FALSE, NatLimbs(n), 0, FALSE)

FNeg(x) == IF x.m = <<>> THEN x ELSE [x EXCEPT !.neg = ~x.neg]

FAdd(x, y) ==
    IF x.m = <<>> THEN y
    ELSE IF y.m = <<>> THEN x
    ELSE LET e  == IF x.e < y.e THEN x.e ELSE y.e
             ax == BShl(x.m, x.e - e)
             ay == BShl(y.m, y.e - e)
         IN  IF x.neg = y.neg THEN Round(x.neg, BAdd(ax, ay), e, FALSE)
             ELSE IF ax = ay THEN FZero
             ELSE IF BLess(ax, ay) THEN Round(y.neg, BSub(ay, ax), e, FALSE)
             ELSE Round(x.neg, BSub(ax, ay), e, FALSE)

FSub(x, y) == FAdd(x, FNeg(y))

\* x * k for a small natural k
FMul(x, k) == IF x.m = <<>> \/ k = 0 THEN FZero
              ELSE Round(x.neg, BMul(x.m, k), x.e, FALSE)

ExtraBits == 14
\* x / n for a small positive natural n (n < 2^(ExtraBits - 2))
FDiv(x, n) ==
    IF x.m = <<>> THEN FZero ELSE
    LET b == BShl(x.m, ExtraBits)
        L == Len(b)
        rem[i \in 1..(L + 1)] == IF i = L + 1 THEN 0 ELSE (Base * rem[i + 1] + b[i]) % n
    IN  Round(x.neg, Canon([i \in 1..L |-> (Base * rem[i + 1] + b[i]) \div n]),
              x.e - ExtraBits, rem[1] # 0)

FLess(x, y) ==
    IF x.m = <<>> THEN y.m # <<>> /\ ~y.neg
    ELSE IF y.m = <<>> THEN x.neg
    ELSE IF x.neg # y.neg THEN x.neg
    ELSE LET lt == x.e < y.e \/ (x.e = y.e /\ BLess(x.m, y.m))
             gt == y.e < x.e \/ (x.e = y.e /\ BLess(y.m, x.m))
         IN  IF x.neg THEN gt ELSE lt

FLeq(x, y) == ~FLess(y, x)


\* ---------- Python built-ins on numbers ----------
PyMin(a, b) == IF FLess(b, a) THEN b ELSE a
PyMax(a, b) == IF FLess(a, b) THEN b ELSE a

\* sum() of a list of floats, start 0: left-to-right additions (CPython <= 3.11)
RECURSIVE NaiveSum(_, _)
NaiveSum(xs, n) == IF n = 0 THEN FZero ELSE FAdd(NaiveSum(xs, n - 1), xs[n])

\* sum() of a list of floats with Neumaier compensation (CPython >= 3.12)
RECURSIVE CompensatedState(_, _)
CompensatedState(xs, n) ==
    IF n = 1 THEN [hi |-> xs[1], c |-> FZero]
    ELSE LET p == CompensatedState(xs, n - 1)
             x == xs[n]
             t == FAdd(p.hi, x)
             big   == IF FLess([p.hi EXCEPT !.neg = FALSE], [x EXCEPT !.neg = FALSE]) THEN x ELSE p.hi
             small == IF FLess([p.hi EXCEPT !.neg = FALSE], [x EXCEPT !.neg = FALSE]) THEN p.hi ELSE x
         IN  [hi |-> t, c |-> FAdd(p.c, FAdd(FSub(big, t), small))]

CompensatedSum(xs) ==
    LET s == CompensatedState(xs, Len(xs))
    IN  IF s.c.m # <<>> THEN FAdd(s.hi, s.c) ELSE s.hi

\* the values sum(xs) can return for a non-empty list of floats
PySum(xs) == {NaiveSum(xs, Len(xs)), CompensatedSum(xs)}

\* ---------- bounds and input sets ----------
MaxAgents == 2
MaxCapacity == 5
MaxCycles == 3

PT == "Public Transport"

\* rows of the commuter table: the columns run_crowding_simulation reads
CommuterRows ==
    { [UsualCommuteMode |-> PT,    Attitude_PT_Score |-> 5, PBC_PT_Score |-> 5],
      [UsualCommuteMode |-> PT,    Attitude_PT_Score |-> 2, PBC_PT_Score |-> 5],
      [UsualCommuteMode |-> "Car", Attitude_PT_Score |-> 3, PBC_PT_Score |-> 3] }

\* values random.uniform(0.5, 0.9) can return
ToleranceSet == {FDiv(FromInt(3), 5), FDiv(FromInt(9), 10)}

None == [none |-> TRUE]

VARIABLES commuters_df, num_sim_steps, pt_capacity, agents, pt_line,
          mode_switches_total, crowding_levels_over_time, step, k,
          perceived_crowding, current_pt_riders_after_response,
          final_crowding_this_step, pc, result, previous_results,
          user_profile, crowding_insights, returned

vars == <<commuters_df, num_sim_steps, pt_capacity, agents, pt_line,
          mode_switches_total, crowding_levels_over_time, step, k,
          perceived_crowding, current_pt_riders_after_response,
          final_crowding_this_step, pc, result, previous_results,
          user_profile, crowding_insights, returned>>

\* the arguments and the outcome of generate_recommendations
recvars == <<user_profile, crowding_insights, returned>>

\* ---------- CommuterAgent ----------
CommuterAgent(id, usual_mode, attitude_pt, pbc_pt, crowding_tolerance) ==
    [id |-> id, usual_mode |-> usual_mode, current_mode |-> usual_mode,
     attitude_pt |-> attitude_pt, pbc_pt |-> pbc_pt,
     crowding_tolerance |-> crowding_tolerance]

\* the crowding impact without the floor at 0
crowding_impact_signed(self, perceived_crowding_level) ==
    FMul(FSub(perceived_crowding_level, self.crowding_tolerance), 2)

\* line 32: the impact of the crowding above the agent's tolerance
crowding_impact(self, perceived_crowding_level) ==
    FMul(PyMax(FZero, FSub(perceived_crowding_level, self.crowding_tolerance)), 2)

\* decide_on_pt without the test on the usual mode
decide_on_pt_any_mode(self, perceived_crowding_level) ==
    LET impact == crowding_impact(self, perceived_crowding_level)
        adjusted_pbc_pt == PyMax(FromInt(1), FSub(FromInt(self.pbc_pt),
                                                  FMul(impact, 3)))
        adjusted_attitude_pt == PyMax(FromInt(1), FSub(FromInt(self.attitude_pt),
                                                       FMul(impact, 2)))
    IN  IF FLess(adjusted_pbc_pt, FromInt(3)) \/ FLess(adjusted_attitude_pt, FromInt(3))
        THEN FALSE
        ELSE TRUE

\* decide_on_pt with crowding weighing on PBC no more than on attitude
decide_on_pt_weak_pbc(self, perceived_crowding_level) ==
    IF self.usual_mode # PT THEN FALSE
    ELSE LET impact == crowding_impact(self, perceived_crowding_level)
             adjusted_pbc_pt == PyMax(FromInt(1), FSub(FromInt(self.pbc_pt),
                                                       FMul(impact, 2)))
             adjusted_attitude_pt == PyMax(FromInt(1), FSub(FromInt(self.attitude_pt),
                                                            FMul(impact, 2)))
         IN  IF FLess(adjusted_pbc_pt, FromInt(3)) \/ FLess(adjusted_attitude_pt, FromInt(3))
             THEN FALSE
             ELSE TRUE

decide_on_pt(self, perceived_crowding_level) ==
    IF self.usual_mode # PT THEN FALSE
    ELSE LET impact == crowding_impact(self, perceived_crowding_level)
             adjusted_pbc_pt == PyMax(FromInt(1), FSub(FromInt(self.pbc_pt),
                                                       FMul(impact, 3)))
             adjusted_attitude_pt == PyMax(FromInt(1), FSub(FromInt(self.attitude_pt),
                                                            FMul(impact, 2)))
         IN  IF FLess(adjusted_pbc_pt, FromInt(3)) \/ FLess(adjusted_attitude_pt, FromInt(3))
             THEN FALSE
             ELSE TRUE

\* ---------- PublicTransportLine ----------
PublicTransportLine(capacity) == [capacity |-> capacity, current_riders |-> 0]

\* get_crowding_level without the clamp at 1.0
get_crowding_level_unclamped(line) ==
    IF line.capacity = 0 THEN FZero
    ELSE FDiv(FromInt(line.current_riders), line.capacity)

\* get_crowding_level with the operands of the division swapped
get_crowding_level_inverted(line) ==
    IF line.capacity = 0 \/ line.current_riders = 0 THEN FZero
    ELSE PyMin(FromInt(1), FDiv(FromInt(line.capacity), line.current_riders))

get_crowding_level(line) ==
    IF line.capacity = 0 THEN FZero
    ELSE PyMin(FromInt(1), FDiv(FromInt(line.current_riders), line.capacity))

reset_riders(line) == [line EXCEPT !.current_riders = 0]

\* ---------- run_crowding_simulation ----------
\* indices (in agents) of the agents whose usual mode is PT, in table order
RECURSIVE pt_users_upto(_, _)
pt_users_upto(ags, n) ==
    IF n = 0 THEN <<>>
    ELSE IF ags[n].usual_mode = PT THEN Append(pt_users_upto(ags, n - 1), n)
    ELSE pt_users_upto(ags, n - 1)

\* pt_users without the filter on the usual mode
all_users == [i \in 1..Len(agents) |-> i]

pt_users == pt_users_upto(agents, Len(agents))

\* boarding by every agent of the table, whatever its usual mode
everyone_attempt_count == Len(agents)

\* boarding that remembers the switches of earlier cycles
remaining_pt_attempt_count ==
    Cardinality({i \in 1..Len(agents) : /\ agents[i].usual_mode = PT
                                        /\ agents[i].current_mode = PT})

initial_pt_attempt_count == Len(pt_users)

other_mode_users == {i \in 1..Len(agents) : agents[i].usual_mode # PT}

Datasets == UNION {[1..n -> CommuterRows] : n \in 0..MaxAgents}

Init ==
    /\ commuters_df \in Datasets
    /\ num_sim_steps \in 0..MaxCycles
    /\ pt_capacity = 0
    /\ agents = <<>>
    /\ pt_line = PublicTransportLine(0)
    /\ mode_switches_total = 0
    /\ crowding_levels_over_time = <<>>
    /\ step = 0
    /\ k = 0
    /\ perceived_crowding = FZero
    /\ current_pt_riders_after_response = 0
    /\ final_crowding_this_step = FZero
    /\ pc = "idle"
    /\ result = None
    /\ previous_results = None
    /\ user_profile = None
    /\ crowding_insights = None
    /\ returned = None

\* lines 83-103: build the agents (each draws a tolerance) and the line
Call(capacity) ==
    /\ pc \in {"idle", "done"}
    /\ \E tol \in [1..Len(commuters_df) -> ToleranceSet] :
         agents' = [i \in 1..Len(commuters_df) |->
                      CommuterAgent(i, commuters_df[i].UsualCommuteMode,
                                    commuters_df[i].Attitude_PT_Score,
                                    commuters_df[i].PBC_PT_Score, tol[i])]
    /\ pt_capacity' = capacity
    /\ pt_line' = PublicTransportLine(capacity)
    /\ mode_switches_total' = 0
    /\ crowding_levels_over_time' = <<>>
    /\ step' = 0
    /\ k' = 0
    /\ perceived_crowding' = FZero
    /\ current_pt_riders_after_response' = 0
    /\ final_crowding_this_step' = FZero
    /\ previous_results' = IF pc = "done" THEN result ELSE previous_results
    /\ result' = None
    /\ pc' = "loop"
    /\ UNCHANGED <<commuters_df, num_sim_steps, user_profile, crowding_insights, returned>>

\* lines 105-119: start of a cycle, all usual PT users board
Board ==
    /\ pc = "loop"
    /\ step < num_sim_steps
    /\ LET boarded == [reset_riders(pt_line) EXCEPT !.current_riders = initial_pt_attempt_count]
       IN  /\ pt_line' = boarded
           /\ perceived_crowding' = get_crowding_level(boarded)
           /\ crowding_levels_over_time' =
                  Append(crowding_levels_over_time, get_crowding_level(boarded))
    /\ current_pt_riders_after_response' = 0
    /\ k' = 1
    /\ pc' = "respond"
    /\ UNCHANGED <<commuters_df, num_sim_steps, pt_capacity, agents,
                   mode_switches_total, step, final_crowding_this_step,
                   result, previous_results, recvars>>

\* the response loop counting an agent that already switched only once
RespondCountOnce ==
    /\ pc = "respond"
    /\ k <= Len(pt_users)
    /\ IF decide_on_pt(agents[pt_users[k]], perceived_crowding)
       THEN /\ current_pt_riders_after_response' = current_pt_riders_after_response + 1
            /\ UNCHANGED <<mode_switches_total, agents>>
       ELSE IF agents[pt_users[k]].current_mode = "Alternative"
       THEN UNCHANGED <<mode_switches_total, agents, current_pt_riders_after_response>>
       ELSE /\ mode_switches_total' = mode_switches_total + 1
            /\ agents' = [agents EXCEPT ![pt_users[k]].current_mode = "Alternative"]
            /\ UNCHANGED current_pt_riders_after_response
    /\ k' = k + 1
    /\ UNCHANGED <<commuters_df, num_sim_steps, pt_capacity, pt_line,
                   crowding_levels_over_time, step, perceived_crowding,
                   final_crowding_this_step, pc, result, previous_results, recvars>>

\* lines 120-127: one PT user reacts to the perceived crowding
Respond ==
    /\ pc = "respond"
    /\ k <= Len(pt_users)
    /\ IF decide_on_pt(agents[pt_users[k]], perceived_crowding)
       THEN /\ current_pt_riders_after_response' = current_pt_riders_after_response + 1
            /\ UNCHANGED <<mode_switches_total, agents>>
       ELSE /\ mode_switches_total' = mode_switches_total + 1
            /\ agents' = [agents EXCEPT ![pt_users[k]].current_mode = "Alternative"]
            /\ UNCHANGED current_pt_riders_after_response
    /\ k' = k + 1
    /\ UNCHANGED <<commuters_df, num_sim_steps, pt_capacity, pt_line,
                   crowding_levels_over_time, step, perceived_crowding,
                   final_crowding_this_step, pc, result, previous_results, recvars>>

\* lines 130-134: riders after the responses, end of the cycle
EndCycle ==
    /\ pc = "respond"
    /\ k > Len(pt_users)
    /\ LET after == [pt_line EXCEPT !.current_riders = current_pt_riders_after_response]
       IN  /\ pt_line' = after
           /\ final_crowding_this_step' = get_crowding_level(after)
    /\ step' = step + 1
    /\ pc' = "loop"
    /\ UNCHANGED <<commuters_df, num_sim_steps, pt_capacity, agents,
                   mode_switches_total, crowding_levels_over_time, k,
                   perceived_crowding, current_pt_riders_after_response,
                   result, previous_results, recvars>>

\* lines 136-147: the average of the recorded crowding levels and the result
Return ==
    /\ pc = "loop"
    /\ step = num_sim_steps
    /\ \E avg_crowding \in
            (IF crowding_levels_over_time # <<>>
             THEN {FDiv(s, Len(crowding_levels_over_time)) :
                       s \in PySum(crowding_levels_over_time)}
             ELSE {FZero}) :
         result' = [average_pt_crowding |-> avg_crowding,
                    total_mode_switches_from_pt |-> mode_switches_total,
                    simulated_pt_capacity |-> pt_capacity,
                    num_sim_steps |-> num_sim_steps]
    /\ pc' = "done"
    /\ UNCHANGED <<commuters_df, num_sim_steps, pt_capacity, agents, pt_line,
                   mode_switches_total, crowding_levels_over_time, step, k,
                   perceived_crowding, current_pt_riders_after_response,
                   final_crowding_this_step, previous_results, recvars>>

Next ==
    \/ \E capacity \in 0..MaxCapacity : Call(capacity)
    \/ Board
    \/ Respond
    \/ EndCycle
    \/ Return

Spec == Init /\ [][Next]_vars

\* ---------- the five-commuter scenario ----------
\* five rows, three of them usual PT users with PBC_PT_Score = 5, as the table
\* of the module's own example (lines 152-172) is laid out
ScenarioTables ==
    { df \in [1..5 -> CommuterRows \cup
                      {[UsualCommuteMode |-> "Walk/Cycle", Attitude_PT_Score |-> 2,
                        PBC_PT_Score |-> 3]}] :
        /\ \A i \in {1, 3, 4} : df[i].UsualCommuteMode = PT /\ df[i].PBC_PT_Score = 5
        /\ df[2].UsualCommuteMode = "Car"
        /\ df[5].UsualCommuteMode = "Walk/Cycle" }

ScenarioInit ==
    /\ commuters_df \in ScenarioTables
    /\ num_sim_steps = 1
    /\ pt_capacity = 0
    /\ agents = <<>>
    /\ pt_line = PublicTransportLine(0)
    /\ mode_switches_total = 0
    /\ crowding_levels_over_time = <<>>
    /\ step = 0
    /\ k = 0
    /\ perceived_crowding = FZero
    /\ current_pt_riders_after_response = 0
    /\ final_crowding_this_step = FZero
    /\ pc = "idle"
    /\ result = None
    /\ previous_results = None
    /\ user_profile = None
    /\ crowding_insights = None
    /\ returned = None

ScenarioNext ==
    \/ Call(3)
    \/ Board
    \/ Respond
    \/ EndCycle
    \/ Return

ScenarioSpec == ScenarioInit /\ [][ScenarioNext]_vars

\* ---------- generate_recommendations ----------
\* A recommendation is named by the rule that appends it; the numbers
\* interpolated into the crowding texts are left out.
PT_ATTITUDE == "PT: negative attitude"
PT_SN == "PT: low subjective norm"
PT_PBC == "PT: perceived challenges"
PT_ENCOURAGE == "PT: strong intention"
CAR_CONGESTION == "Car: strong preference, congestion"
CAR_ENVIRONMENT == "Car: environmental impact"
WALK_CHALLENGE == "Walk/Cycle: might face challenges"
WALK_ENCOURAGE == "Walk/Cycle: keep it up"
CROWDING_ALERT == "Crowding Alert"
CROWDING_MODERATE == "moderate crowding"
CROWDING_LOW == "not overly crowded"
SWITCHES == "instances of commuters switching away"
FALLBACK == "balanced view"

\* the run of the function so far: the list built, or a KeyError raised
Started == [raised |-> FALSE, recommendations |-> <<>>]

Raise(acc) == [acc EXCEPT !.raised = TRUE]

Add(acc, text) == [acc EXCEPT !.recommendations = Append(@, text)]

\* the low-score rule with the comparison <= 4
LowScoreRuleInclusive(acc, profile, key, text) ==
    IF acc.raised THEN acc
    ELSE IF key \notin DOMAIN profile THEN Raise(acc)
    ELSE IF profile[key] <= 4 THEN Add(acc, text)
    ELSE acc

\* "if user_profile[key] < 4: recommendations.append(text)"
LowScoreRule(acc, profile, key, text) ==
    IF acc.raised THEN acc
    ELSE IF key \notin DOMAIN profile THEN Raise(acc)
    ELSE IF profile[key] < 4 THEN Add(acc, text)
    ELSE acc

\* the PT branch with the SN rule evaluated before the attitude rule
PTBranchSNFirst(acc, profile) ==
    IF acc.raised THEN acc
    ELSE IF "Intention_PT_Score" \notin DOMAIN profile THEN Raise(acc)
    ELSE IF profile["Intention_PT_Score"] < 4
         THEN LowScoreRule(
                  LowScoreRule(
                      LowScoreRule(acc, profile, "SN_PT_Score", PT_SN),
                      profile, "Attitude_PT_Score", PT_ATTITUDE),
                  profile, "PBC_PT_Score", PT_PBC)
    ELSE IF profile["Intention_PT_Score"] >= 5 THEN Add(acc, PT_ENCOURAGE)
    ELSE acc

\* lines 28-53
PTBranch(acc, profile) ==
    IF acc.raised THEN acc
    ELSE IF "Intention_PT_Score" \notin DOMAIN profile THEN Raise(acc)
    ELSE IF profile["Intention_PT_Score"] < 4
         THEN LowScoreRule(
                  LowScoreRule(
                      LowScoreRule(acc, profile, "Attitude_PT_Score", PT_ATTITUDE),
                      profile, "SN_PT_Score", PT_SN),
                  profile, "PBC_PT_Score", PT_PBC)
    ELSE IF profile["Intention_PT_Score"] >= 5 THEN Add(acc, PT_ENCOURAGE)
    ELSE acc

\* lines 57-61
CarCongestionRule(acc, profile) ==
    IF acc.raised THEN acc
    ELSE IF "Attitude_Car_Score" \notin DOMAIN profile THEN Raise(acc)
    ELSE IF profile["Attitude_Car_Score"] >= 5
         THEN IF "PBC_Car_Score" \notin DOMAIN profile THEN Raise(acc)
              ELSE IF profile["PBC_Car_Score"] >= 5 THEN Add(acc, CAR_CONGESTION)
              ELSE acc
    ELSE acc

\* lines 56-66
CarBranch(acc, profile) ==
    IF acc.raised THEN acc
    ELSE IF "Intention_Car_Score" \notin DOMAIN profile THEN Raise(acc)
    ELSE IF profile["Intention_Car_Score"] >= 5
         THEN LowScoreRule(CarCongestionRule(acc, profile),
                           profile, "SN_Car_Score", CAR_ENVIRONMENT)
    ELSE acc

\* lines 70-81
WalkCycleBranch(acc, profile) ==
    IF acc.raised THEN acc
    ELSE IF "Intention_WalkCycle_Score" \notin DOMAIN profile THEN Raise(acc)
    ELSE IF profile["Intention_WalkCycle_Score"] >= 5
         THEN IF "PBC_WalkCycle_Score" \notin DOMAIN profile THEN Raise(acc)
              ELSE IF profile["PBC_WalkCycle_Score"] < 4 THEN Add(acc, WALK_CHALLENGE)
              ELSE Add(acc, WALK_ENCOURAGE)
    ELSE acc

HighCrowding == FDiv(FromInt(7), 10)
ModerateCrowding == FDiv(FromInt(2), 5)

\* the crowding rule with "if" in place of "elif"
CrowdingLevelRuleNoElif(acc, avg_crowding) ==
    LET first == IF FLess(HighCrowding, avg_crowding) THEN Add(acc, CROWDING_ALERT) ELSE acc
    IN  IF FLess(ModerateCrowding, avg_crowding) THEN Add(first, CROWDING_MODERATE)
        ELSE Add(first, CROWDING_LOW)

\* lines 88-103
CrowdingLevelRule(acc, avg_crowding) ==
    IF FLess(HighCrowding, avg_crowding) THEN Add(acc, CROWDING_ALERT)
    ELSE IF FLess(ModerateCrowding, avg_crowding) THEN Add(acc, CROWDING_MODERATE)
    ELSE Add(acc, CROWDING_LOW)

\* lines 105-109
SwitchCountRule(acc, profile, total_switches) ==
    IF acc.raised THEN acc
    ELSE IF total_switches > 0
         THEN IF "UsualCommuteMode" \notin DOMAIN profile THEN Raise(acc)
              ELSE IF profile["UsualCommuteMode"] = PT THEN Add(acc, SWITCHES)
              ELSE acc
    ELSE acc

\* lines 84-109
CrowdingBranch(acc, profile, insights) ==
    IF acc.raised THEN acc
    ELSE IF insights # None
         THEN SwitchCountRule(CrowdingLevelRule(acc, insights.average_pt_crowding),
                              profile, insights.total_mode_switches_from_pt)
    ELSE acc

\* the fallback appended without looking at the list
FallbackRuleAlways(acc) ==
    IF acc.raised THEN acc ELSE Add(acc, FALLBACK)

\* lines 111-115
FallbackRule(acc) ==
    IF acc.raised THEN acc
    ELSE IF acc.recommendations = <<>> THEN Add(acc, FALLBACK)
    ELSE acc

generate_recommendations(profile, insights) ==
    FallbackRule(
        CrowdingBranch(
            WalkCycleBranch(
                CarBranch(
                    PTBranch(Started, profile),
                    profile),
                profile),
            profile, insights))

\* ---------- inputs of generate_recommendations ----------
IntentionFields == {"Intention_PT_Score", "Intention_Car_Score", "Intention_WalkCycle_Score"}

ScoreFields ==
    IntentionFields \cup
    {"Attitude_Car_Score", "Attitude_PT_Score", "Attitude_WalkCycle_Score",
     "SN_Car_Score", "SN_PT_Score", "SN_WalkCycle_Score",
     "PBC_Car_Score", "PBC_PT_Score", "PBC_WalkCycle_Score"}

\* the scores (on the 1..7 scale) a field takes in the profiles drawn as inputs
ScoreChoices(field) ==
    IF field \in IntentionFields THEN {2, 4, 5}
    ELSE IF field \in {"Attitude_Car_Score", "PBC_Car_Score"} THEN {4, 5}
    ELSE IF field \in {"Attitude_WalkCycle_Score", "SN_WalkCycle_Score"} THEN {4}
    ELSE {2, 4}

ScoreSets == {sc \in [ScoreFields -> {2, 4, 5}] : \A f \in ScoreFields : sc[f] \in ScoreChoices(f)}

Profiles == {sc @@ ("UsualCommuteMode" :> mode) : sc \in ScoreSets, mode \in {PT, "Car"}}

\* results of a simulation run as the application passes them on
InsightsSet ==
    { [average_pt_crowding |-> avg, total_mode_switches_from_pt |-> n,
       simulated_pt_capacity |-> 10, num_sim_steps |-> 5] :
          avg \in {ModerateCrowding, HighCrowding, FDiv(FromInt(17), 20)},
          n \in {0, 2} }

SimIdle ==
    /\ commuters_df = <<>>
    /\ num_sim_steps = 0
    /\ pt_capacity = 0
    /\ agents = <<>>
    /\ pt_line = PublicTransportLine(0)
    /\ mode_switches_total = 0
    /\ crowding_levels_over_time = <<>>
    /\ step = 0
    /\ k = 0
    /\ perceived_crowding = FZero
    /\ current_pt_riders_after_response = 0
    /\ final_crowding_this_step = FZero
    /\ pc = "idle"
    /\ result = None
    /\ previous_results = None

simvars == <<commuters_df, num_sim_steps, pt_capacity, agents, pt_line,
             mode_switches_total, crowding_levels_over_time, step, k,
             perceived_crowding, current_pt_riders_after_response,
             final_crowding_this_step, pc, result, previous_results>>

RecInit ==
    /\ SimIdle
    /\ user_profile \in Profiles
    /\ crowding_insights \in InsightsSet \cup {None}
    /\ returned = None

\* a profile that lacks one of the twelve score fields
MissingInit ==
    /\ SimIdle
    /\ \E p \in Profiles : \E f \in ScoreFields :
           user_profile = [x \in (DOMAIN p) \ {f} |-> p[x]]
    /\ crowding_insights \in {None, [average_pt_crowding |-> FDiv(FromInt(17), 20),
                                     total_mode_switches_from_pt |-> 2,
                                     simulated_pt_capacity |-> 10, num_sim_steps |-> 5]}
    /\ returned = None

\* one call of generate_recommendations(user_profile, crowding_insights)
Generate ==
    /\ returned = None
    /\ returned' = generate_recommendations(user_profile, crowding_insights)
    /\ UNCHANGED <<user_profile, crowding_insights, simvars>>

RecNext == Generate

RecSpec == RecInit /\ [][RecNext]_vars

MissingSpec == MissingInit /\ [][RecNext]_vars

\* ---------- properties of run_crowding_simulation ----------
One == FromInt(1)

\* the number P of rows of the table whose usual mode is PT
P == Cardinality({i \in 1..Len(commuters_df) : commuters_df[i].UsualCommuteMode = PT})

\* min(1, P / C), and 0.0 for C = 0
ClampedRatio(capacity) ==
    IF capacity = 0 THEN FZero
    ELSE IF P >= capacity THEN One
    ELSE FDiv(FromInt(P), capacity)

\* C1: a finished run with capacity > 0 and at least one cycle reports an average
\* crowding in [0, 1] and a switch count >= 0.
Thm_C1_AverageInUnitRange ==
    (pc = "done" /\ result.simulated_pt_capacity > 0 /\ result.num_sim_steps > 0)
        => /\ FLeq(FZero, result.average_pt_crowding)
           /\ FLeq(result.average_pt_crowding, One)
           /\ result.total_mode_switches_from_pt >= 0

Wit_C1_CrowdedRunDone ==
    /\ pc = "done"
    /\ result.simulated_pt_capacity > 0
    /\ result.num_sim_steps > 0
    /\ Len(pt_users) > result.simulated_pt_capacity
    /\ result.total_mode_switches_from_pt > 0

\* C2: of two finished runs over the same table and the same cycle count N > 0,
\* the run with the smaller positive capacity reports an average crowding that
\* is greater than or equal to that of the run with the larger capacity.
Thm_C2_MonotoneInCapacity ==
    (/\ pc = "done"
     /\ previous_results # None
     /\ num_sim_steps > 0
     /\ previous_results.simulated_pt_capacity > 0
     /\ result.simulated_pt_capacity > 0)
        => /\ previous_results.simulated_pt_capacity < result.simulated_pt_capacity
                => FLeq(result.average_pt_crowding, previous_results.average_pt_crowding)
           /\ result.simulated_pt_capacity < previous_results.simulated_pt_capacity
                => FLeq(previous_results.average_pt_crowding, result.average_pt_crowding)

Wit_C2_TwoRunsDiffer ==
    /\ pc = "done"
    /\ previous_results # None
    /\ num_sim_steps > 0
    /\ previous_results.simulated_pt_capacity > 0
    /\ previous_results.simulated_pt_capacity < result.simulated_pt_capacity
    /\ FLess(result.average_pt_crowding, previous_results.average_pt_crowding)

SixTenths == FDiv(FromInt(3), 5)

\* the usual PT users whose drawn tolerance is at most 0.6
LowTolerancePT == {i \in 1..Len(agents) : /\ agents[i].usual_mode = PT
                                          /\ FLeq(agents[i].crowding_tolerance, SixTenths)}

InScenario ==
    /\ Len(commuters_df) = 5
    /\ P = 3
    /\ \A i \in 1..5 : commuters_df[i].UsualCommuteMode = PT
                          => commuters_df[i].PBC_PT_Score = 5
    /\ pt_capacity = 3
    /\ num_sim_steps = 1

\* C3 as stated: in the scenario (5 commuters, 3 usual PT users with PBC 5,
\* capacity 3, 1 cycle) the run reports 3 switches and average crowding 1.0
\* for whatever tolerances the agents drew.
Orig_C3_ScenarioThreeSwitches ==
    (pc = "done" /\ InScenario)
        => /\ result.total_mode_switches_from_pt = 3
           /\ result.average_pt_crowding = One

\* C3 amended: in the scenario the run reports average crowding 1.0 and between
\* 0 and 3 switches; every usual PT user whose tolerance is at most 0.6 switches,
\* so the count is 3 when all three drew a tolerance of at most 0.6.
Thm_C3_ScenarioSwitchesByTolerance ==
    (pc = "done" /\ InScenario)
        => /\ result.average_pt_crowding = One
           /\ result.total_mode_switches_from_pt \in 0..3
           /\ result.total_mode_switches_from_pt >= Cardinality(LowTolerancePT)
           /\ \A i \in LowTolerancePT : agents[i].current_mode = "Alternative"

Wit_C3_AllLowToleranceDone ==
    /\ pc = "done"
    /\ InScenario
    /\ Cardinality(LowTolerancePT) = 3
    /\ \A i \in LowTolerancePT : agents[i].attitude_pt = 5
    /\ result.total_mode_switches_from_pt = 3

\* C4: when no agent has usual mode PT (the empty table included), every
\* recorded crowding level is 0.0, no switch is counted, and the finished run
\* reports average 0.0 and 0 switches, for every capacity >= 0 and cycle count >= 0.
Thm_C4_NoPTUsers ==
    (pc # "idle" /\ P = 0)
        => /\ \A i \in 1..Len(crowding_levels_over_time) :
                  crowding_levels_over_time[i] = FZero
           /\ mode_switches_total = 0
           /\ pc = "done" => /\ result.average_pt_crowding = FZero
                             /\ result.total_mode_switches_from_pt = 0

Wit_C4_NoPTUsersDone ==
    /\ pc = "done"
    /\ P = 0
    /\ Len(agents) > 0
    /\ pt_capacity = 0
    /\ num_sim_steps > 1

\* ---------- properties of generate_recommendations ----------
Completed == returned # None /\ ~returned.raised

Recs == returned.recommendations

Has(text) == \E i \in 1..Len(Recs) : Recs[i] = text

CrowdingTexts == {CROWDING_ALERT, CROWDING_MODERATE, CROWDING_LOW}

\* C5: a call on a complete profile never returns an empty list; the fallback
\* text is in the list exactly when no other rule appended a text, and then it
\* is the only element.
Thm_C5_FallbackOnlyWhenEmpty ==
    Completed
        => /\ Recs # <<>>
           /\ Has(FALLBACK) <=> ~(\E i \in 1..Len(Recs) : Recs[i] # FALLBACK)
           /\ Has(FALLBACK) => Recs = <<FALLBACK>>

Wit_C5_FallbackReturned ==
    /\ Completed
    /\ crowding_insights = None
    /\ \A f \in IntentionFields : user_profile[f] = 4
    /\ Recs = <<FALLBACK>>

\* C6: with insights the list holds exactly one crowding-level text: the alert
\* iff average > 0.7, the moderate one iff 0.4 < average <= 0.7, the low one
\* iff average <= 0.4; without insights it holds none of the three.
Thm_C6_OneCrowdingText ==
    Completed
        => IF crowding_insights = None
           THEN \A t \in CrowdingTexts : ~Has(t)
           ELSE LET avg == crowding_insights.average_pt_crowding
                IN  /\ Cardinality({i \in 1..Len(Recs) : Recs[i] \in CrowdingTexts}) = 1
                    /\ Has(CROWDING_ALERT) <=> FLess(HighCrowding, avg)
                    /\ Has(CROWDING_MODERATE) <=>
                           (FLess(ModerateCrowding, avg) /\ FLeq(avg, HighCrowding))
                    /\ Has(CROWDING_LOW) <=> FLeq(avg, ModerateCrowding)

Wit_C6_AlertOnly ==
    /\ Completed
    /\ crowding_insights # None
    /\ crowding_insights.average_pt_crowding = FDiv(FromInt(17), 20)
    /\ Has(CROWDING_ALERT)
    /\ ~Has(CROWDING_MODERATE)
    /\ ~Has(CROWDING_LOW)

\* C7: a score of exactly 4 triggers no "low" rule (Intention_PT_Score = 4 adds
\* no PT text at all; an attitude, SN or PBC score of 4 adds no low-score text),
\* and an intention of exactly 5 triggers the "high" rule of its branch: the PT
\* encouragement, the Car rules, exactly one Walk/Cycle text.
Thm_C7_ThresholdBoundaries ==
    Completed
        => /\ user_profile["Intention_PT_Score"] = 4
                => \A t \in {PT_ATTITUDE, PT_SN, PT_PBC, PT_ENCOURAGE} : ~Has(t)
           /\ user_profile["Attitude_PT_Score"] = 4 => ~Has(PT_ATTITUDE)
           /\ user_profile["SN_PT_Score"] = 4 => ~Has(PT_SN)
           /\ user_profile["PBC_PT_Score"] = 4 => ~Has(PT_PBC)
           /\ user_profile["SN_Car_Score"] = 4 => ~Has(CAR_ENVIRONMENT)
           /\ user_profile["PBC_WalkCycle_Score"] = 4 => ~Has(WALK_CHALLENGE)
           /\ user_profile["Intention_PT_Score"] = 5 => Has(PT_ENCOURAGE)
           /\ user_profile["Intention_Car_Score"] = 5
                => /\ Has(CAR_CONGESTION) <=> (/\ user_profile["Attitude_Car_Score"] >= 5
                                               /\ user_profile["PBC_Car_Score"] >= 5)
                   /\ Has(CAR_ENVIRONMENT) <=> user_profile["SN_Car_Score"] < 4
           /\ user_profile["Intention_WalkCycle_Score"] = 5
                => Cardinality({i \in 1..Len(Recs) :
                                    Recs[i] \in {WALK_CHALLENGE, WALK_ENCOURAGE}}) = 1

Wit_C7_BoundaryScores ==
    /\ Completed
    /\ \A f \in IntentionFields : user_profile[f] = 5
    /\ user_profile["SN_Car_Score"] = 4
    /\ user_profile["PBC_WalkCycle_Score"] = 4
    /\ user_profile["Attitude_Car_Score"] = 5
    /\ user_profile["PBC_Car_Score"] = 5
    /\ Has(PT_ENCOURAGE)
    /\ Has(CAR_CONGESTION)
    /\ Has(WALK_ENCOURAGE)

\* C8 as stated: a call on a profile that lacks one of the twelve score fields
\* fails with an error and returns no list.
Orig_C8_MissingFieldRaises ==
    (/\ returned # None
     /\ \E f \in ScoreFields : f \notin DOMAIN user_profile)
        => returned.raised

\* position of a text in the fixed evaluation order
Rank(text) ==
    CASE text = PT_ATTITUDE -> 1
      [] text = PT_SN -> 2
      [] text = PT_PBC -> 3
      [] text = PT_ENCOURAGE -> 4
      [] text = CAR_CONGESTION -> 5
      [] text = CAR_ENVIRONMENT -> 6
      [] text = WALK_CHALLENGE -> 7
      [] text = WALK_ENCOURAGE -> 8
      [] text \in CrowdingTexts -> 9
      [] text = SWITCHES -> 10
      [] text = FALLBACK -> 11

\* C9: the returned list is a subsequence, without repetition, of the fixed
\* order PT attitude, PT SN, PT PBC, PT encouragement, Car congestion, Car
\* environment, Walk/Cycle challenge, Walk/Cycle encouragement, crowding level,
\* switch count, fallback; a profile whose four PT scores are all 2 gets the
\* three PT texts attitude, SN, PBC first, in this order.
Thm_C9_FixedOrder ==
    Completed
        => /\ \A i, j \in 1..Len(Recs) : i < j => Rank(Recs[i]) < Rank(Recs[j])
           /\ (\A f \in {"Intention_PT_Score", "Attitude_PT_Score", "SN_PT_Score",
                         "PBC_PT_Score"} : user_profile[f] = 2)
                => /\ Len(Recs) >= 3
                   /\ SubSeq(Recs, 1, 3) = <<PT_ATTITUDE, PT_SN, PT_PBC>>
                   /\ ~Has(PT_ENCOURAGE)

Wit_C9_ThreePTTextsFirst ==
    /\ Completed
    /\ \A f \in {"Intention_PT_Score", "Attitude_PT_Score", "SN_PT_Score",
                 "PBC_PT_Score"} : user_profile[f] = 2
    /\ Len(Recs) = 8

\* C10 as stated: boarding puts all P usual PT users on the line in every cycle,
\* every recorded level is min(1, P/C) (0.0 for C = 0), and the reported
\* average equals min(1, P/C) for N > 0 and 0 for N = 0.
Orig_C10_AverageEqualsRatio ==
    /\ pc = "respond" => pt_line.current_riders = P
    /\ pc # "idle" => \A i \in 1..Len(crowding_levels_over_time) :
                          crowding_levels_over_time[i] = ClampedRatio(pt_capacity)
    /\ pc = "done" => result.average_pt_crowding =
                          (IF num_sim_steps = 0 THEN FZero ELSE ClampedRatio(pt_capacity))

\* C10 amended: as above, but the reported average is the floating-point mean
\* of the recorded levels: it equals min(1, P/C) when N <= 2 or when
\* min(1, P/C) is 0.0 or 1.0, and it is 0 when N = 0.
Thm_C10_BoardingMemoryless ==
    /\ pc = "respond" => pt_line.current_riders = P
    /\ pc # "idle" => \A i \in 1..Len(crowding_levels_over_time) :
                          crowding_levels_over_time[i] = ClampedRatio(pt_capacity)
    /\ pc = "done" =>
          IF num_sim_steps = 0 THEN result.average_pt_crowding = FZero
          ELSE (num_sim_steps <= 2 \/ ClampedRatio(pt_capacity) \in {FZero, One})
                   => result.average_pt_crowding = ClampedRatio(pt_capacity)

Wit_C10_SecondCycleAfterSwitch ==
    /\ pc = "respond"
    /\ step >= 1
    /\ mode_switches_total > 0
    /\ pt_capacity > P
    /\ P > 0

\* the usual PT users whose verdict at the crowding perceived in this cycle is "switch"
SwitchVerdicts ==
    {i \in 1..Len(agents) : /\ agents[i].usual_mode = PT
                            /\ ~decide_on_pt(agents[i], perceived_crowding)}

\* C11: in every state of a run the rider count of the line is between 0 and P
\* and its crowding level is between 0.0 and 1.0 (0.0 when the capacity is 0);
\* when a cycle has ended, the rider count is P minus the number of switch
\* verdicts given in that cycle.
Thm_C11_RidersBounded ==
    /\ pt_line.current_riders \in 0..P
    /\ FLeq(FZero, get_crowding_level(pt_line))
    /\ FLeq(get_crowding_level(pt_line), One)
    /\ pt_line.capacity = 0 => get_crowding_level(pt_line) = FZero
    /\ (pc = "loop" /\ step >= 1)
           => pt_line.current_riders = P - Cardinality(SwitchVerdicts)

Wit_C11_CycleEndedWithLeavers ==
    /\ pc = "loop"
    /\ step >= 1
    /\ Cardinality(SwitchVerdicts) > 0
    /\ pt_line.current_riders > 0
    /\ pt_line.current_riders < pt_line.capacity

\* the crowding levels a line of the modelled sizes can show
CrowdingLevels ==
    {get_crowding_level([capacity |-> c, current_riders |-> r]) :
         c \in 0..MaxCapacity, r \in 0..MaxAgents}

NonPTUntouched ==
    /\ \A i \in 1..Len(agents) :
          /\ agents[i].usual_mode # PT
                => /\ \A c \in {FZero, perceived_crowding,
                                 get_crowding_level(pt_line), One} :
                          ~decide_on_pt(agents[i], c)
                   /\ agents[i].current_mode = agents[i].usual_mode
                   /\ agents[i].attitude_pt = commuters_df[i].Attitude_PT_Score
                   /\ agents[i].pbc_pt = commuters_df[i].PBC_PT_Score
          /\ agents[i].current_mode # agents[i].usual_mode
                => /\ agents[i].current_mode = "Alternative"
                   /\ agents[i].usual_mode = PT
                   /\ ~decide_on_pt(agents[i], perceived_crowding)
    /\ pt_line.current_riders <= P
    /\ current_pt_riders_after_response <= P
    /\ mode_switches_total <= P * step + (IF pc = "respond" THEN k - 1 ELSE 0)

\* a step of a run leaves the record of every non-PT agent as it was
NonPTFrame ==
    pc \in {"loop", "respond"}
        => \A i \in 1..Len(agents) :
               agents[i].usual_mode # PT => agents'[i] = agents[i]

\* C12: an agent whose usual mode is not PT gets the verdict false from
\* decide_on_pt (examined at 0.0, at 1.0 and at the levels the run perceives
\* and reports) and no step of a run changes any of its
\* fields; such agents are never counted as riders or as switches and keep
\* current_mode = usual mode; an agent has current_mode "Alternative" only if
\* it is a usual PT user with a switch verdict.
Thm_C12_NonPTUntouched ==
    /\ []NonPTUntouched
    /\ [][NonPTFrame]_vars

Wit_C12_MixedRunDone ==
    /\ pc = "done"
    /\ other_mode_users # {}
    /\ \E i \in 1..Len(agents) : agents[i].current_mode = "Alternative"
    /\ result.total_mode_switches_from_pt > 0

\* the usual PT users whose verdict at crowding min(1, P/C) is "switch"
SwitchersAtRatio ==
    {i \in 1..Len(agents) : /\ agents[i].usual_mode = PT
                            /\ ~decide_on_pt(agents[i], ClampedRatio(pt_capacity))}

\* C13: every cycle of a run perceives the crowding min(1, P/C) and so gives
\* each usual PT user the same verdict; a switching agent is counted in every
\* cycle: after each cycle the counter is (cycles done) * k, and the run
\* reports num_cycles * k, which lies between 0 and num_cycles * P, where k is
\* the number of usual PT users whose verdict at min(1, P/C) is "switch".
Thm_C13_SwitchesPerCycle ==
    LET switchers == SwitchersAtRatio
    IN  /\ pc = "respond"
              => /\ perceived_crowding = ClampedRatio(pt_capacity)
                 /\ mode_switches_total =
                        step * Cardinality(switchers)
                        + Cardinality({i \in switchers :
                                         \E j \in 1..(k - 1) : pt_users[j] = i})
        /\ pc = "loop" => mode_switches_total = step * Cardinality(switchers)
        /\ pc = "done" => /\ result.total_mode_switches_from_pt =
                                 num_sim_steps * Cardinality(switchers)
                          /\ result.total_mode_switches_from_pt >= 0
                          /\ result.total_mode_switches_from_pt <= num_sim_steps * P

Wit_C13_CountedAgainEachCycle ==
    /\ pc = "done"
    /\ num_sim_steps >= 2
    /\ Cardinality(SwitchersAtRatio) = 1
    /\ P = 2
    /\ result.total_mode_switches_from_pt = num_sim_steps

\* a PBC or attitude score below the threshold of lines 39-41
LowScore(a) == a.pbc_pt < 3 \/ a.attitude_pt < 3

\* the usual PT users whose PBC or attitude score is below 3
LowScorePT ==
    {i \in 1..Len(agents) : agents[i].usual_mode = PT /\ LowScore(agents[i])}

\* an agent as lines 83-92 built it, its id aside; the response loop changes
\* only current_mode afterwards
AsConstructed(a) ==
    CommuterAgent(0, a.usual_mode, a.attitude_pt, a.pbc_pt, a.crowding_tolerance)

\* every usual PT user a run can build
PossiblePTAgents ==
    {CommuterAgent(0, r.UsualCommuteMode, r.Attitude_PT_Score, r.PBC_PT_Score, t) :
         r \in {x \in CommuterRows : x.UsualCommuteMode = PT}, t \in ToleranceSet}

\* the verdicts of every possible usual PT user at every crowding level
VerdictsByScore ==
    \A a \in PossiblePTAgents :
       \A c \in CrowdingLevels :
          LET stays == decide_on_pt(a, c)
          IN  /\ FLeq(c, a.crowding_tolerance)
                    => /\ crowding_impact(a, c) = FZero
                       /\ stays <=> ~LowScore(a)
              /\ LowScore(a) => ~stays

====
